---- MODULE Spec2Model ----
(***************************************************************************)
(* A model of the two programs of the repository:                          *)
(*                                                                         *)
(*  - build_rst.sh, the script that converts every notebook of a directory *)
(*    to html, writes one .rst stub per notebook and lists the stubs in    *)
(*    index.rst (specification BuildSpec);                                 *)
(*  - ring.py with its drivers test_ring1.py and test_ring2.py, as run by  *)
(*    nhost MPI processes (specifications RingSpec and RingLive).          *)
(*                                                                         *)
(* File names are sequences of their dot-separated components, so that     *)
(* "a.b.ipynb" is <<"a", "b", "ipynb">>; a line of a text file is a pair   *)
(* <<template, name>> of the text the script echoes and the value of $name *)
(* substituted in it (<<>> when the line has no substitution).             *)
(***************************************************************************)
EXTENDS Integers, Sequences, FiniteSets, TLC

VARIABLES
    \* ---- build_rst.sh ----
    dir,        \* the files of the working directory other than .rst/.html
    rst,        \* the .rst files: name (without ".rst") -> sequence of lines
    html,       \* the names of the .html files nbconvert has written
    pc,         \* the script's position
    todo,       \* the words of the for loop not yet iterated
    filename,   \* $filename
    name,       \* $name
    status,     \* $?, the exit status once pc = "exit"
    log,        \* the commands this run has executed: [cmd, arg, rc]
    run,        \* how many times the script has been started
    rst0,       \* the .rst files as they were when this run started
    prev,       \* the outcome of the previous run: [ran, ok, rst]
    \* ---- ring.py, test_ring1.py, test_ring2.py ----
    script,     \* the driver every process runs
    N,          \* Ring's N
    nhost,      \* pc.nhost()
    ppc,        \* each process's position
    gidlist,    \* self.gidlist of each process
    gid2node,   \* the <<gid, node>> pairs each process gave pc.set_gid2node
    cells,      \* self.cells of each process, as the cells' gids
    outcell,    \* the gids each process gave pc.cell
    ncs,        \* the <<source gid, target gid>> of each process's gid_connect calls
    netstim,    \* whether the process created self._netstim and self._nc
    spike_times,\* each process's cell.spike_times, by gid
    sendbuf,    \* the list each process passed to py_alltoall
    all_data,   \* the list py_alltoall returned to each process
    data,       \* the dictionary each process merged
    arrived,    \* the processes that have entered each collective call
    plot        \* the figure window: "none", "open" or "closed"

shvars == <<dir, rst, html, pc, todo, filename, name, status, log, run, rst0, prev>>

ringvars == <<script, N, nhost, ppc, gidlist, gid2node, cells, outcell, ncs,
              netstim, spike_times, sendbuf, all_data, data, arrived, plot>>

vars == <<shvars, ringvars>>

\* How many times the script is started in one behaviour.
MaxRuns == 2

-----------------------------------------------------------------------------
(* build_rst.sh                                                            *)

\* The files a directory may hold.
Files ==
    { <<"a", "ipynb">>, <<"a", "b", "ipynb">>, <<"index", "ipynb">>,
      <<"notes", "txt">> }

\* The collation order of the file names the pattern can match.
SortKey(f) ==
    CASE f = <<"a", "b", "ipynb">> -> 1
      [] f = <<"a", "ipynb">>      -> 2
      [] f = <<"index", "ipynb">>  -> 3
      [] OTHER                     -> 4

\* The pattern of the for loop, as a word.
Pattern == <<"*", "ipynb">>

\* Whether the pattern *.ipynb matches f.
Matches(f) == Len(f) >= 2 /\ f[Len(f)] = "ipynb" /\ f[1] # ""

RECURSIVE Sorted(_)
Sorted(S) ==
    IF S = {} THEN <<>>
    ELSE LET m == CHOOSE x \in S : \A y \in S : SortKey(x) <= SortKey(y)
         IN  <<m>> \o Sorted(S \ {m})

\* Pathname expansion of *.ipynb: the matching names in collation order, and
\* the pattern itself when nothing matches.
Glob(d) ==
    LET m == { f \in d : Matches(f) }
    IN  IF m = {} THEN <<Pattern>> ELSE Sorted(m)

\* "${filename%.*}": the shortest suffix matching .* removed.
StripExt(f) == IF Len(f) >= 2 THEN SubSeq(f, 1, Len(f) - 1) ELSE f

\* The name of index.rst, without its extension.
INDEX == <<"index">>

\* The text of the first echo.
Header ==
    << <<"", <<>>>>, <<"Tutorials", <<>>>>, <<"=========", <<>>>>, <<"", <<>>>>,
       <<".. toctree::", <<>>>>, <<"   :maxdepth: 2", <<>>>>, <<"", <<>>>> >>

\* The text of the stub of $name.
Stub(n) ==
    << <<"$name", n>>, <<"----------------", <<>>>>, <<"", <<>>>>,
       <<".. raw:: html", <<>>>>, <<"   :file: $name.html", n>>, <<"", <<>>>> >>

\* The line appended to index.rst for $name.
Entry(n) == << <<"   $name", n>> >>

\* A directory without .rst files.
NoRst == [k \in {} |-> <<>>]

Put(f, k, v) == [x \in DOMAIN f \cup {k} |-> IF x = k THEN v ELSE f[x]]

Content(f, k) == IF k \in DOMAIN f THEN f[k] ELSE <<>>

\* ">" : on success the file holds exactly the text; on failure the file is
\* left as it was or was created or truncated before the failure.
Redirect(f, k, text, rc) ==
    IF rc = 0 THEN {Put(f, k, text)} ELSE {f, Put(f, k, <<>>)}

\* ">>" : on success the text follows what the file held (the file is
\* created when missing); on failure the file is left as it was.
AppendTo(f, k, text, rc) ==
    IF rc = 0 THEN {Put(f, k, Content(f, k) \o text)} ELSE {f}

\* The exit statuses of a command: success and failure.
RCs == {0, 1}

\* The exit statuses nbconvert can give for a file: it fails when the
\* argument names no file of the directory.
ConvertRCs(f) == IF f \in dir THEN RCs ELSE {1}

\* set -e
NoErrExit == FALSE
ErrExit == TRUE

\* Where the script goes after a command with status rc that is followed by
\* the command at nxt.
After(rc, nxt) == IF rc # 0 /\ ErrExit THEN "exit" ELSE nxt

Logged(cmd, arg, rc) == Append(log, [cmd |-> cmd, arg |-> arg, rc |-> rc])

NoPrev == [ran |-> FALSE, ok |-> FALSE, rst |-> NoRst]

\* The .rst files a directory may hold before the first run: none, or an
\* index.rst left by something else.
PriorRst ==
    { NoRst,
      [k \in {INDEX} |-> Entry(<<"old">>)],
      [k \in {INDEX} |-> Header \o Entry(<<"a">>) \o Entry(<<"a">>)] }

ShIdle ==
    /\ dir = {} /\ rst = NoRst /\ html = {} /\ pc = "exit" /\ todo = <<>>
    /\ filename = <<>> /\ name = <<>> /\ status = 0 /\ log = <<>>
    /\ run = MaxRuns /\ rst0 = NoRst /\ prev = NoPrev

ShInit ==
    /\ dir \in SUBSET Files
    /\ rst \in PriorRst
    /\ html = {}
    /\ pc = "index"
    /\ todo = <<>>
    /\ filename = <<>>
    /\ name = <<>>
    /\ status = 0
    /\ log = <<>>
    /\ run = 1
    /\ rst0 = rst
    /\ prev = NoPrev

\* echo "...toctree..." > index.rst
IndexWrite ==
    /\ pc = "index"
    /\ \E rc \in RCs :
        /\ rst' \in Redirect(rst, INDEX, Header, rc)
        /\ status' = rc
        /\ log' = Logged("index", <<>>, rc)
        /\ pc' = After(rc, "for")
    /\ UNCHANGED <<dir, html, todo, filename, name, run, rst0, prev>>
    /\ UNCHANGED ringvars

\* for filename in *.ipynb: the word list is expanded once
ForExpand ==
    /\ pc = "for"
    /\ todo' = Glob(dir)
    /\ pc' = "next"
    /\ UNCHANGED <<dir, rst, html, filename, name, status, log, run, rst0, prev>>
    /\ UNCHANGED ringvars

\* the next iteration, or the end of the loop and of the script
ForNext ==
    /\ pc = "next"
    /\ IF todo = <<>>
       THEN /\ pc' = "exit"
            /\ UNCHANGED <<todo, filename>>
       ELSE /\ filename' = Head(todo)
            /\ todo' = Tail(todo)
            /\ pc' = "convert"
    /\ UNCHANGED <<dir, rst, html, name, status, log, run, rst0, prev>>
    /\ UNCHANGED ringvars

\* jupyter nbconvert --to html $filename
Convert ==
    /\ pc = "convert"
    /\ \E rc \in ConvertRCs(filename) :
        /\ html' = IF rc = 0 THEN html \cup {StripExt(filename)} ELSE html
        /\ status' = rc
        /\ log' = Logged("convert", filename, rc)
        /\ pc' = After(rc, "assign")
    /\ UNCHANGED <<dir, rst, todo, filename, name, run, rst0, prev>>
    /\ UNCHANGED ringvars

\* name="${filename%.*}"
Assign ==
    /\ pc = "assign"
    /\ name' = StripExt(filename)
    /\ status' = 0
    /\ pc' = "stub"
    /\ UNCHANGED <<dir, rst, html, todo, filename, log, run, rst0, prev>>
    /\ UNCHANGED ringvars

\* echo "...stub..." > $name.rst
StubWrite ==
    /\ pc = "stub"
    /\ \E rc \in RCs :
        /\ rst' \in Redirect(rst, name, Stub(name), rc)
        /\ status' = rc
        /\ log' = Logged("stub", filename, rc)
        /\ pc' = After(rc, "append")
    /\ UNCHANGED <<dir, html, todo, filename, name, run, rst0, prev>>
    /\ UNCHANGED ringvars

\* echo "   $name" >> index.rst
IndexAppend ==
    /\ pc = "append"
    /\ \E rc \in RCs :
        /\ rst' \in AppendTo(rst, INDEX, Entry(name), rc)
        /\ status' = rc
        /\ log' = Logged("append", filename, rc)
        /\ pc' = After(rc, "next")
    /\ UNCHANGED <<dir, html, todo, filename, name, run, rst0, prev>>
    /\ UNCHANGED ringvars

\* The script is started again in the directory as the last run left it.
Rerun ==
    /\ pc = "exit"
    /\ run < MaxRuns
    /\ run' = run + 1
    /\ prev' = [ran |-> TRUE, ok |-> status = 0, rst |-> rst]
    /\ rst0' = rst
    /\ pc' = "index"
    /\ todo' = <<>>
    /\ filename' = <<>>
    /\ name' = <<>>
    /\ status' = 0
    /\ log' = <<>>
    /\ UNCHANGED <<dir, rst, html>>
    /\ UNCHANGED ringvars

BuildNext ==
    \/ IndexWrite
    \/ ForExpand
    \/ ForNext
    \/ Convert
    \/ Assign
    \/ StubWrite
    \/ IndexAppend
    \/ Rerun

-----------------------------------------------------------------------------
(* ring.py, test_ring1.py, test_ring2.py                                   *)

\* The largest N given to Ring (the drivers use the default, 5), and the
\* largest number of processes.
MaxN == 4
MaxHost == 3

\* The processes mpiexec may start, and those it started.
AllProcs == 0 .. (MaxHost - 1)
Procs == 0 .. (nhost - 1)

Scripts == {"test_ring1", "test_ring2"}

\* list(range(start, stop, step)) for step >= 1.
Range(start, stop, step) ==
    LET len == IF stop > start THEN (stop - start + step - 1) \div step ELSE 0
    IN  [i \in 1 .. len |-> start + (i - 1) * step]

Elems(s) == { s[i] : i \in 1 .. Len(s) }

\* self.gidlist of process id.
GidListSerial(id, n, nh) == Range(0, n, 1)
GidList(id, n, nh) == Range(id, n, nh)

\* The source of the connection onto the cell with gid g.
SourceGidNext(g, n) == (g + 1) % n
SourceGid(g, n) == (g - 1 + n) % n

\* pc.gid_exists(g) on process p.
GidExists(p, g) == <<g, p>> \in gid2node[p]

\* Whether process p creates the NetStim.
StimAlways(p) == TRUE
HasStim(p) == GidExists(p, 0)

\* The values cell.spike_times can hold after psolve.
SpikeLists == { <<>>, <<10>> }

\* Python objects handed to py_alltoall: None or a dictionary.
EmptyDict == [k \in {} |-> <<>>]
None == [isNone |-> TRUE, d |-> EmptyDict]
Obj(d) == [isNone |-> FALSE, d |-> d]

\* {cell._gid: list(cell.spike_times) for cell in ring.cells}
LocalData(p) == [g \in Elems(cells[p]) |-> spike_times[p][g]]

\* [local_data] + [None] * (pc.nhost() - 1)
SendListAll(ld, nh) == [j \in 1 .. nh |-> Obj(ld)]
SendList(ld, nh) == <<Obj(ld)>> \o [j \in 1 .. (nh - 1) |-> None]

\* data.update(process_data)
UpdateReplace(d, e) == e
Update(d, e) ==
    [k \in DOMAIN d \cup DOMAIN e |-> IF k \in DOMAIN e THEN e[k] ELSE d[k]]

\* data = {}; for process_data in all_data: data.update(process_data)
RECURSIVE Merge(_, _)
Merge(d, objs) ==
    IF objs = <<>> THEN d ELSE Merge(Update(d, Head(objs).d), Tail(objs))

\* A collective call returns once every process has entered it.
AllArrived(c) == arrived[c] = Procs

\* pc.barrier(): wait until all processes reach this point.
BarrierNoWait == TRUE
BarrierOpen == AllArrived("barrier")

Collectives == {"psolve", "alltoall", "barrier"}

RingIdle ==
    /\ script = "test_ring1" /\ N = 0 /\ nhost = 1
    /\ ppc = [p \in {0} |-> "terminated"]
    /\ gidlist = [p \in {0} |-> <<>>]
    /\ gid2node = [p \in {0} |-> {}]
    /\ cells = [p \in {0} |-> <<>>]
    /\ outcell = [p \in {0} |-> {}]
    /\ ncs = [p \in {0} |-> <<>>]
    /\ netstim = [p \in {0} |-> FALSE]
    /\ spike_times = [p \in {0} |-> EmptyDict]
    /\ sendbuf = [p \in {0} |-> <<>>]
    /\ all_data = [p \in {0} |-> <<>>]
    /\ data = [p \in {0} |-> EmptyDict]
    /\ arrived = [c \in Collectives |-> {0}]
    /\ plot = [p \in {0} |-> "none"]

RingInit ==
    /\ script \in Scripts
    /\ N \in 0 .. MaxN
    /\ nhost \in 1 .. MaxHost
    /\ ppc = [p \in Procs |-> "set_gids"]
    /\ gidlist = [p \in Procs |-> <<>>]
    /\ gid2node = [p \in Procs |-> {}]
    /\ cells = [p \in Procs |-> <<>>]
    /\ outcell = [p \in Procs |-> {}]
    /\ ncs = [p \in Procs |-> <<>>]
    /\ netstim = [p \in Procs |-> FALSE]
    /\ spike_times = [p \in Procs |-> EmptyDict]
    /\ sendbuf = [p \in Procs |-> <<>>]
    /\ all_data = [p \in Procs |-> <<>>]
    /\ data = [p \in Procs |-> EmptyDict]
    /\ arrived = [c \in Collectives |-> {}]
    /\ plot = [p \in Procs |-> "none"]

\* Ring.set_gids
SetGids(p) ==
    /\ p \in Procs
    /\ ppc[p] = "set_gids"
    /\ gidlist' = [gidlist EXCEPT ![p] = GidList(p, N, nhost)]
    /\ gid2node' = [gid2node EXCEPT ![p] = { <<g, p>> : g \in Elems(gidlist'[p]) }]
    /\ ppc' = [ppc EXCEPT ![p] = "create_cells"]
    /\ UNCHANGED <<script, N, nhost, cells, outcell, ncs, netstim, spike_times,
                   sendbuf, all_data, data, arrived, plot>>
    /\ UNCHANGED shvars

\* Ring._create_cells
CreateCells(p) ==
    /\ p \in Procs
    /\ ppc[p] = "create_cells"
    /\ cells' = [cells EXCEPT ![p] = gidlist[p]]
    /\ outcell' = [outcell EXCEPT ![p] = Elems(cells'[p])]
    /\ ppc' = [ppc EXCEPT ![p] = "connect_cells"]
    /\ UNCHANGED <<script, N, nhost, gidlist, gid2node, ncs, netstim,
                   spike_times, sendbuf, all_data, data, arrived, plot>>
    /\ UNCHANGED shvars

\* Ring._connect_cells
ConnectCells(p) ==
    /\ p \in Procs
    /\ ppc[p] = "connect_cells"
    /\ ncs' = [ncs EXCEPT ![p] =
                 [i \in 1 .. Len(cells[p]) |->
                     <<SourceGid(cells[p][i], N), cells[p][i]>>]]
    /\ ppc' = [ppc EXCEPT ![p] = "netstim"]
    /\ UNCHANGED <<script, N, nhost, gidlist, gid2node, cells, outcell, netstim,
                   spike_times, sendbuf, all_data, data, arrived, plot>>
    /\ UNCHANGED shvars

\* the end of Ring.__init__: if pc.gid_exists(0): ...
NetStim(p) ==
    /\ p \in Procs
    /\ ppc[p] = "netstim"
    /\ netstim' = [netstim EXCEPT ![p] = HasStim(p)]
    /\ ppc' = [ppc EXCEPT ![p] = "psolve"]
    /\ UNCHANGED <<script, N, nhost, gidlist, gid2node, cells, outcell, ncs,
                   spike_times, sendbuf, all_data, data, arrived, plot>>
    /\ UNCHANGED shvars

\* pc.set_maxstep, h.finitialize and the call of pc.psolve
PSolveEnter(p) ==
    /\ p \in Procs
    /\ ppc[p] = "psolve"
    /\ arrived' = [arrived EXCEPT !["psolve"] = @ \cup {p}]
    /\ ppc' = [ppc EXCEPT ![p] = "in_psolve"]
    /\ UNCHANGED <<script, N, nhost, gidlist, gid2node, cells, outcell, ncs,
                   netstim, spike_times, sendbuf, all_data, data, plot>>
    /\ UNCHANGED shvars

\* pc.psolve returns; the cells of the process hold their spike times
PSolveLeave(p) ==
    /\ p \in Procs
    /\ ppc[p] = "in_psolve"
    /\ AllArrived("psolve")
    /\ \E st \in [Elems(cells[p]) -> SpikeLists] :
          spike_times' = [spike_times EXCEPT ![p] = st]
    /\ ppc' = [ppc EXCEPT ![p] =
                 IF script = "test_ring1" THEN "plot" ELSE "alltoall"]
    /\ UNCHANGED <<script, N, nhost, gidlist, gid2node, cells, outcell, ncs,
                   netstim, sendbuf, all_data, data, arrived, plot>>
    /\ UNCHANGED shvars

\* test_ring1.py: if pc.gid_exists(cell_to_plot): plt.figure() ... plt.show()
Plot1(p) ==
    /\ p \in Procs
    /\ ppc[p] = "plot"
    /\ IF GidExists(p, 0)
       THEN /\ plot' = [plot EXCEPT ![p] = "open"]
            /\ ppc' = [ppc EXCEPT ![p] = "show"]
       ELSE /\ plot' = plot
            /\ ppc' = [ppc EXCEPT ![p] = "barrier"]
    /\ UNCHANGED <<script, N, nhost, gidlist, gid2node, cells, outcell, ncs,
                   netstim, spike_times, sendbuf, all_data, data, arrived>>
    /\ UNCHANGED shvars

\* test_ring2.py: local_data = ...; the call of pc.py_alltoall
AlltoallEnter(p) ==
    /\ p \in Procs
    /\ ppc[p] = "alltoall"
    /\ sendbuf' = [sendbuf EXCEPT ![p] = SendList(LocalData(p), nhost)]
    /\ arrived' = [arrived EXCEPT !["alltoall"] = @ \cup {p}]
    /\ ppc' = [ppc EXCEPT ![p] = "in_alltoall"]
    /\ UNCHANGED <<script, N, nhost, gidlist, gid2node, cells, outcell, ncs,
                   netstim, spike_times, all_data, data, plot>>
    /\ UNCHANGED shvars

\* pc.py_alltoall returns: element i is what process i sent to this process
AlltoallLeave(p) ==
    /\ p \in Procs
    /\ ppc[p] = "in_alltoall"
    /\ AllArrived("alltoall")
    /\ all_data' = [all_data EXCEPT ![p] =
                      [i \in 1 .. nhost |-> sendbuf[i - 1][p + 1]]]
    /\ ppc' = [ppc EXCEPT ![p] = "merge"]
    /\ UNCHANGED <<script, N, nhost, gidlist, gid2node, cells, outcell, ncs,
                   netstim, spike_times, sendbuf, data, arrived, plot>>
    /\ UNCHANGED shvars

\* test_ring2.py: if pc.id() == 0: merge, plot and plt.show().
\* data.update(None) raises TypeError, which ends the script.
MergePlot(p) ==
    /\ p \in Procs
    /\ ppc[p] = "merge"
    /\ IF p # 0
       THEN /\ ppc' = [ppc EXCEPT ![p] = "barrier"]
            /\ UNCHANGED <<data, plot>>
       ELSE IF \E i \in 1 .. Len(all_data[p]) : all_data[p][i].isNone
       THEN /\ ppc' = [ppc EXCEPT ![p] = "error"]
            /\ UNCHANGED <<data, plot>>
       ELSE /\ data' = [data EXCEPT ![p] = Merge(EmptyDict, all_data[p])]
            /\ plot' = [plot EXCEPT ![p] = "open"]
            /\ ppc' = [ppc EXCEPT ![p] = "show"]
    /\ UNCHANGED <<script, N, nhost, gidlist, gid2node, cells, outcell, ncs,
                   netstim, spike_times, sendbuf, all_data, arrived>>
    /\ UNCHANGED shvars

\* plt.show() returns when the user closes the figure
CloseShow(p) ==
    /\ p \in Procs
    /\ ppc[p] = "show"
    /\ plot' = [plot EXCEPT ![p] = "closed"]
    /\ ppc' = [ppc EXCEPT ![p] = "barrier"]
    /\ UNCHANGED <<script, N, nhost, gidlist, gid2node, cells, outcell, ncs,
                   netstim, spike_times, sendbuf, all_data, data, arrived>>
    /\ UNCHANGED shvars

\* the call of pc.barrier()
BarrierEnter(p) ==
    /\ p \in Procs
    /\ ppc[p] = "barrier"
    /\ arrived' = [arrived EXCEPT !["barrier"] = @ \cup {p}]
    /\ ppc' = [ppc EXCEPT ![p] = "in_barrier"]
    /\ UNCHANGED <<script, N, nhost, gidlist, gid2node, cells, outcell, ncs,
                   netstim, spike_times, sendbuf, all_data, data, plot>>
    /\ UNCHANGED shvars

\* pc.barrier() returns
BarrierLeave(p) ==
    /\ p \in Procs
    /\ ppc[p] = "in_barrier"
    /\ BarrierOpen
    /\ ppc' = [ppc EXCEPT ![p] = "done"]
    /\ UNCHANGED <<script, N, nhost, gidlist, gid2node, cells, outcell, ncs,
                   netstim, spike_times, sendbuf, all_data, data, arrived, plot>>
    /\ UNCHANGED shvars

\* pc.done()
Done(p) ==
    /\ p \in Procs
    /\ ppc[p] = "done"
    /\ ppc' = [ppc EXCEPT ![p] = "quit"]
    /\ UNCHANGED <<script, N, nhost, gidlist, gid2node, cells, outcell, ncs,
                   netstim, spike_times, sendbuf, all_data, data, arrived, plot>>
    /\ UNCHANGED shvars

\* h.quit()
Quit(p) ==
    /\ p \in Procs
    /\ ppc[p] = "quit"
    /\ ppc' = [ppc EXCEPT ![p] = "terminated"]
    /\ UNCHANGED <<script, N, nhost, gidlist, gid2node, cells, outcell, ncs,
                   netstim, spike_times, sendbuf, all_data, data, arrived, plot>>
    /\ UNCHANGED shvars

\* A step of process p that waits for no user.
ProcStep(p) ==
    \/ SetGids(p)
    \/ CreateCells(p)
    \/ ConnectCells(p)
    \/ NetStim(p)
    \/ PSolveEnter(p)
    \/ PSolveLeave(p)
    \/ Plot1(p)
    \/ AlltoallEnter(p)
    \/ AlltoallLeave(p)
    \/ MergePlot(p)
    \/ BarrierEnter(p)
    \/ BarrierLeave(p)
    \/ Done(p)
    \/ Quit(p)

RingNext ==
    \E p \in AllProcs :
        \/ SetGids(p)
        \/ CreateCells(p)
        \/ ConnectCells(p)
        \/ NetStim(p)
        \/ PSolveEnter(p)
        \/ PSolveLeave(p)
        \/ Plot1(p)
        \/ AlltoallEnter(p)
        \/ AlltoallLeave(p)
        \/ MergePlot(p)
        \/ CloseShow(p)
        \/ BarrierEnter(p)
        \/ BarrierLeave(p)
        \/ Done(p)
        \/ Quit(p)

-----------------------------------------------------------------------------
(* Specifications                                                          *)

BuildInit == ShInit /\ RingIdle
BuildSpec == BuildInit /\ [][BuildNext]_vars

MpiInit == RingInit /\ ShIdle
RingSpec == MpiInit /\ [][RingNext]_vars

\* Every MPI process keeps running its script; nobody has to close a figure.
RingLive ==
    /\ MpiInit
    /\ [][RingNext]_vars
    /\ \A p \in AllProcs : WF_vars(ProcStep(p))

-----------------------------------------------------------------------------
(* Properties of build_rst.sh                                              *)

\* The notebook files of the directory.
Notebooks == { f \in dir : f[Len(f)] = "ipynb" }

\* The run has ended and every command it ran succeeded.
Succeeded ==
    /\ pc = "exit"
    /\ Len(log) > 0
    /\ \A i \in 1 .. Len(log) : log[i].rc = 0

\* The entries of the log for one command, in order.
Cmds(c) == SelectSeq(log, LAMBDA e : e.cmd = c)

\* The names a text lists in lines of the form "   $name".
Listed(text) == { text[i][2] : i \in { j \in 1 .. Len(text) : text[j][1] = "   $name" } }

\* C1: a fully successful run over a directory with N notebooks and no .rst
\* file leaves exactly N stub files, one per notebook and named after it
\* without its last extension, and one index file besides them.
C1_StubPerNotebook ==
    (Succeeded /\ rst0 = NoRst) =>
        LET stubs == DOMAIN rst \ {INDEX}
        IN  /\ INDEX \in DOMAIN rst
            /\ stubs = { StripExt(f) : f \in Notebooks }
            /\ Cardinality(stubs) = Cardinality(Notebooks)
            /\ Cardinality(DOMAIN rst) = Cardinality(Notebooks) + 1

\* C2: after a fully successful run index.rst is the header, with its one
\* toctree directive, followed by the names of the N notebooks, each once, in
\* the order in which the loop converted them.
C2_IndexListsStubs ==
    Succeeded =>
        LET conv == Cmds("convert")
        IN  /\ INDEX \in DOMAIN rst
            /\ { conv[i].arg : i \in 1 .. Len(conv) } = Notebooks
            /\ Len(conv) = Cardinality(Notebooks)
            /\ rst[INDEX] =
                 Header \o [i \in 1 .. Len(conv) |-> Entry(StripExt(conv[i].arg))[1]]

\* C3: a failing command is the last command the run executes: the script is
\* at its exit with that command's non-zero status, nothing was run after
\* it, and no notebook was given to the converter twice.
C3_FailFast ==
    /\ \A i \in 1 .. Len(log) :
          log[i].rc # 0 =>
              /\ i = Len(log)
              /\ pc = "exit"
              /\ status = log[i].rc
              /\ status # 0
    /\ \A i, j \in 1 .. Len(log) :
          (i < j /\ log[i].cmd = "convert" /\ log[j].cmd = "convert")
              => log[i].arg # log[j].arg

\* The converter failed on the second notebook, with a third one waiting.
C3_Witness ==
    /\ pc = "exit"
    /\ status # 0
    /\ Len(log) = 5
    /\ log[5].cmd = "convert"
    /\ todo # <<>>

\* C9: within a run the commands follow the order index, then for each
\* notebook convert, stub, append, each started only after the one before it
\* succeeded; so every name index.rst lists has a stub file and every stub
\* the run wrote is of a notebook that was converted.
C9_StepOrder ==
    /\ \A i \in 1 .. Len(log) :
          /\ log[i].cmd = "index" => i = 1
          /\ log[i].cmd = "convert" =>
                /\ i > 1
                /\ log[i - 1].rc = 0
                /\ log[i - 1].cmd \in {"index", "append"}
          /\ log[i].cmd = "stub" =>
                /\ i > 1
                /\ log[i - 1] = [cmd |-> "convert", arg |-> log[i].arg, rc |-> 0]
                /\ StripExt(log[i].arg) \in html
          /\ log[i].cmd = "append" =>
                /\ i > 1
                /\ log[i - 1] = [cmd |-> "stub", arg |-> log[i].arg, rc |-> 0]
    /\ (Len(log) > 0 /\ log[1].rc = 0) =>
          \A n \in Listed(Content(rst, INDEX)) : n \in DOMAIN rst

\* A run that failed after it had listed a notebook in the index.
C9_Witness ==
    /\ pc = "exit"
    /\ status # 0
    /\ Len(log) >= 5
    /\ Listed(Content(rst, INDEX)) # {}

\* C10: after a successful run index.rst holds the header and the names of
\* the notebooks of the directory and nothing else, whatever it held before;
\* and a successful run that follows a successful run leaves the .rst files
\* as that run left them.
C10_CleanIndex ==
    Succeeded =>
        /\ INDEX \in DOMAIN rst
        /\ SubSeq(rst[INDEX], 1, Len(Header)) = Header
        /\ Len(rst[INDEX]) = Len(Header) + Cardinality(Notebooks)
        /\ Listed(rst[INDEX]) = { StripExt(f) : f \in Notebooks }
        /\ (prev.ran /\ prev.ok) => rst = prev.rst

-----------------------------------------------------------------------------
(* Properties of ring.py and its drivers                                   *)

\* The positions after each stage of the script.
AfterSetGids(p) == ppc[p] # "set_gids"
AfterConnect(p) == ppc[p] \notin {"set_gids", "create_cells", "connect_cells"}
AfterInit(p) == AfterConnect(p) /\ ppc[p] # "netstim"
AtBarrier(p) == ppc[p] \in {"in_barrier", "done", "quit", "terminated"}
PastBarrier(p) == ppc[p] \in {"done", "quit", "terminated"}
AfterMerge(p) == ppc[p] \in {"show", "barrier"} \/ AtBarrier(p)

\* C4: the gidlists of the processes are pairwise disjoint and together hold
\* exactly 0 .. N-1; gid g is given to set_gid2node only by process
\* g mod nhost, for that node; a process whose id is at least N has no gid.
C4_GidPartition ==
    /\ \A p, q \in Procs :
          (p # q /\ AfterSetGids(p) /\ AfterSetGids(q))
              => Elems(gidlist[p]) \cap Elems(gidlist[q]) = {}
    /\ (\A p \in Procs : AfterSetGids(p))
          => UNION { Elems(gidlist[p]) : p \in Procs } = 0 .. (N - 1)
    /\ \A p \in Procs :
          /\ \A e \in gid2node[p] : e[2] = p /\ e[1] % nhost = p
          /\ AfterSetGids(p) =>
                /\ \A g \in 0 .. (N - 1) : (g % nhost = p) => <<g, p>> \in gid2node[p]
                /\ \A i, j \in 1 .. Len(gidlist[p]) :
                      i # j => gidlist[p][i] # gidlist[p][j]
                /\ p >= N => gidlist[p] = <<>>

\* Several processes have their gids, and one of them has more than one.
C4_Witness ==
    /\ nhost >= 2
    /\ \A p \in Procs : AfterSetGids(p)
    /\ \E p \in Procs : Len(gidlist[p]) >= 2

\* The gid_connect calls of all processes, as <<process, index>> places.
ConnPlaces == { pl \in Procs \X (1 .. MaxN) : pl[2] <= Len(ncs[pl[1]]) }
Conn(pl) == ncs[pl[1]][pl[2]]

\* The cell the cell g projects to, when exactly one connection leaves g.
Succ(g) == (CHOOSE pl \in ConnPlaces : Conn(pl)[1] = g)
RECURSIVE Orbit(_, _)
Orbit(g, k) == IF k = 0 THEN {} ELSE {g} \cup Orbit(Conn(Succ(g))[2], k - 1)

\* C5: once every process has connected its cells (N >= 1), every gid is the
\* target of exactly one connection and the source of exactly one, the
\* connection onto cell g comes from cell g-1, and onto cell 0 from cell
\* N-1, and following the connections from cell 0 visits all N cells.
C5_RingTopology ==
    (N >= 1 /\ \A p \in Procs : AfterConnect(p)) =>
        /\ \A g \in 0 .. (N - 1) :
              /\ Cardinality({ pl \in ConnPlaces : Conn(pl)[2] = g }) = 1
              /\ Cardinality({ pl \in ConnPlaces : Conn(pl)[1] = g }) = 1
              /\ \A pl \in ConnPlaces :
                    Conn(pl)[2] = g => Conn(pl)[1] = IF g = 0 THEN N - 1 ELSE g - 1
        /\ \A pl \in ConnPlaces : Conn(pl)[1] \in 0 .. (N - 1) /\ Conn(pl)[2] \in 0 .. (N - 1)
        /\ Orbit(0, N) = 0 .. (N - 1)

\* A ring of at least three cells spread over several processes.
C5_Witness ==
    /\ N >= 3
    /\ nhost >= 2
    /\ \A p \in Procs : AfterConnect(p)

\* C6: once every process has constructed its Ring (N >= 1), exactly one
\* process holds a NetStim, and it is the process that owns gid 0.
C6_OneStim ==
    /\ Cardinality({ p \in Procs : netstim[p] }) <= 1
    /\ (N >= 1 /\ \A p \in Procs : AfterInit(p)) =>
          /\ Cardinality({ p \in Procs : netstim[p] }) = 1
          /\ \A p \in Procs : netstim[p] <=> (0 \in Elems(gidlist[p]))

\* Several processes have constructed a Ring with cells.
C6_Witness ==
    /\ N >= 1
    /\ nhost >= 2
    /\ \A p \in Procs : AfterInit(p)

\* No process is past pc.barrier() before every process has entered it and
\* every figure is closed.
BarrierSafe ==
    \A p \in Procs :
        PastBarrier(p) =>
            \A q \in Procs : AtBarrier(q) /\ plot[q] # "open" /\ ppc[q] # "show"

AllTerminated == \A p \in Procs : ppc[p] = "terminated"

\* C7: no process runs pc.done() or h.quit() before every process has
\* reached pc.barrier(), hence none before process 0 is back from
\* plt.show(); and once process 0 has closed the figure every process passes
\* the barrier and terminates.
C7_BarrierBeforeShutdown ==
    /\ []BarrierSafe
    /\ (plot[0] = "closed") ~> AllTerminated

\* Several processes have terminated after process 0 closed its figure.
C7_Witness ==
    /\ nhost >= 2
    /\ plot[0] = "closed"
    /\ AllTerminated

\* C8: in test_ring2.py every process sends its dictionary to process 0 and
\* None to the others; the dictionaries process 0 receives have disjoint
\* keys, and the merged dictionary has the keys 0 .. N-1, each with the spike
\* times recorded by the process that owns the gid.
C8_SpikeGather ==
    /\ \A p \in Procs :
          sendbuf[p] # <<>> =>
              /\ sendbuf[p][1] = Obj(LocalData(p))
              /\ \A j \in 2 .. nhost : sendbuf[p][j].isNone
    /\ (script = "test_ring2" /\ AfterMerge(0)) =>
          /\ \A i \in 1 .. nhost : all_data[0][i] = Obj(LocalData(i - 1))
          /\ \A i, j \in 1 .. nhost :
                i # j => DOMAIN all_data[0][i].d \cap DOMAIN all_data[0][j].d = {}
          /\ DOMAIN data[0] = 0 .. (N - 1)
          /\ \A g \in 0 .. (N - 1) : data[0][g] = spike_times[g % nhost][g]

\* Process 0 has merged spikes of cells owned by several processes.
C8_Witness ==
    /\ script = "test_ring2"
    /\ ppc[0] = "show"
    /\ nhost >= 2
    /\ N >= 3
    /\ \E g \in 0 .. (N - 1) : g % nhost # 0 /\ data[0][g] # <<>>

====
